---- MODULE Spec2Model ----
(***************************************************************************)
(* A model of regex.py: infix_to_postfix (shunting-yard conversion with    *)
(* implicit concatenation), parse_regex (Thompson-style construction over  *)
(* a heap of RegexGraphState objects) and match_str (NFA simulation with   *)
(* add_state / step).  Strings are sequences of one-character strings.     *)
(***************************************************************************)
EXTENDS Integers, Sequences, FiniteSets, TLC

VARIABLES regex_str, input_str, pc, postfix_str, pi, leaf_stack, heap,
          state_id, regex_graph, current_states, i, result, run, first_result

vars == <<regex_str, input_str, pc, postfix_str, pi, leaf_stack, heap,
          state_id, regex_graph, current_states, i, result, run, first_result>>

----------------------------------------------------------------------------
(* Bounds of the model.                                                    *)

MaxPatLen == 5
MaxInLen == 2
MaxLitPatLen == 4
MaxLitInLen == 3
MaxRepPatLen == 4
MaxRepInLen == 1
MaxRuns == 2

Literals == {"a", "b"}
InputChars == {"a", "b", "c"}
PatternChars == Literals \cup {"|", "*", "+", "?", "(", ")"}
\* Pattern characters of the repeated-call runs: one literal and every operator.
RepeatChars == {"a", "|", "*", "+", "?"}

SeqsUpTo(S, n) == UNION {[1..k -> S] : k \in 0..n}

Range(f) == {f[x] : x \in DOMAIN f}

----------------------------------------------------------------------------
(* RegexGraphState                                                         *)

SPLIT == "SPLIT"
MATCH == "MATCH"

\* RegexGraphState.__init__: a state with character c and out list out.
RegexGraphState(c, out) == [c |-> c, out |-> out]

\* RegexGraphFragment.__init__
RegexGraphFragment(start, out_states) == [start |-> start, out_states |-> out_states]

\* RegexGraphFragment.set_out: for each state in out_states,
\* state.out.clear(); state.out.append(next_frag.start).
set_out(h, out_states, next_start) ==
    [s \in DOMAIN h |->
        IF s \in Range(out_states)
        THEN [h[s] EXCEPT !.out = <<next_start>>]
        ELSE h[s]]

----------------------------------------------------------------------------
(* infix_to_postfix                                                        *)

OpChars == {"|", ".", "?", "+", "*"}

\* op_precedence with alternation and concatenation swapped.
op_precedence_swapped(op) ==
    CASE op = "|" -> 1
      [] op = "." -> 0
      [] OTHER -> 2

\* op_precedence = {"|": 0, ".": 1, "?": 2, "+": 2, "*": 2}
op_precedence(op) ==
    CASE op = "|" -> 0
      [] op = "." -> 1
      [] OTHER -> 2

RECURSIVE add_operator_loop(_, _, _)
\* The while loop of add_operator: pop operators of higher precedence to output.
add_operator_loop(op, output, operators) ==
    IF Len(operators) > 0
       /\ op_precedence(op) < op_precedence(operators[Len(operators)])
    THEN add_operator_loop(op,
                           Append(output, operators[Len(operators)]),
                           SubSeq(operators, 1, Len(operators) - 1))
    ELSE [output |-> output, operators |-> operators]

add_operator(op, output, operators) ==
    IF Len(operators) = 0
    THEN [output |-> output, operators |-> <<op>>]
    ELSE LET r == add_operator_loop(op, output, operators)
         IN  [output |-> r.output, operators |-> Append(r.operators, op)]

RECURSIVE flush_operators(_, _)
\* while len(operators) > 0: output.append(operators.pop())
flush_operators(output, operators) ==
    IF Len(operators) = 0 THEN output
    ELSE flush_operators(Append(output, operators[Len(operators)]),
                         SubSeq(operators, 1, Len(operators) - 1))

\* "if i > 0 and regex_str[i-1] not in op_precedence: add_operator('.')"
\* (k is the 0-based index i of the code).
implicit_concat(str, k, output, operators) ==
    IF k > 0 /\ str[k] \notin OpChars
    THEN add_operator(".", output, operators)
    ELSE [output |-> output, operators |-> operators]

RECURSIVE infix_to_postfix(_)
RECURSIVE infix_scan(_, _, _, _)
\* The main while loop of infix_to_postfix, from 0-based index k.
infix_scan(str, k, output, operators) ==
    IF k >= Len(str) THEN flush_operators(output, operators)
    ELSE LET char == str[k + 1] IN
         IF char \in OpChars
         THEN LET r == add_operator(char, output, operators)
              IN  infix_scan(str, k + 1, r.output, r.operators)
         ELSE IF char = "("
         THEN LET r == implicit_concat(str, k, output, operators)
                  sub_expr == infix_to_postfix(SubSeq(str, k + 2, Len(str)))
              IN  infix_scan(str, k + Len(sub_expr) + 1,
                             r.output \o sub_expr, r.operators)
         ELSE IF char = ")"
         THEN flush_operators(output, operators)
         ELSE LET r == implicit_concat(str, k, output, operators)
              IN  infix_scan(str, k + 1, Append(r.output, char), r.operators)

infix_to_postfix(str) == infix_scan(str, 0, <<>>, <<>>)

----------------------------------------------------------------------------
(* parse_regex: one postfix token                                          *)

Top(stk) == stk[Len(stk)]
Pop(stk) == SubSeq(stk, 1, Len(stk) - 1)

\* Operands a token pops from leaf_stack (list.pop() raises IndexError on []).
Arity(char) ==
    IF char \in {".", "|"} THEN 2
    ELSE IF char \in {"+", "?", "*"} THEN 1
    ELSE 0

\* The body of the while loop of parse_regex for token char, given the heap h,
\* the fragment stack stk and the class counter RegexGraphState._state_id = id.
parse_token(char, h, stk, id) ==
    IF char = "."
    THEN LET f2 == Top(stk)
             f1 == Top(Pop(stk))
             concatenated == RegexGraphFragment(f1.start, f2.out_states)
         IN  [heap |-> set_out(h, f1.out_states, f2.start),
              leaf_stack |-> Append(Pop(Pop(stk)), concatenated),
              state_id |-> id]
    ELSE IF char = "+"
    THEN LET f == Top(stk)
             split == id
             add_frag == RegexGraphFragment(f.start, <<split>>)
         IN  [heap |-> h @@ (split :> RegexGraphState(SPLIT, <<f.start>>)),
              leaf_stack |-> Append(Pop(stk), add_frag),
              state_id |-> id + 1]
    ELSE IF char = "?"
    THEN LET f == Top(stk)
             split == id
             check_frag == RegexGraphFragment(split, <<split>> \o f.out_states)
         IN  [heap |-> h @@ (split :> RegexGraphState(SPLIT, <<f.start>>)),
              leaf_stack |-> Append(Pop(stk), check_frag),
              state_id |-> id + 1]
    ELSE IF char = "*"
    THEN LET f == Top(stk)
             split == id
             any_frag == RegexGraphFragment(split, <<split>>)
             h1 == h @@ (split :> RegexGraphState(SPLIT, <<f.start>>))
         IN  [heap |-> set_out(h1, f.out_states, any_frag.start),
              leaf_stack |-> Append(Pop(stk), any_frag),
              state_id |-> id + 1]
    ELSE IF char = "|"
    THEN LET f2 == Top(stk)
             f1 == Top(Pop(stk))
             split == id
             or_frag == RegexGraphFragment(split, f1.out_states \o f2.out_states)
         IN  [heap |-> h @@ (split :> RegexGraphState(SPLIT, <<f1.start, f2.start>>)),
              leaf_stack |-> Append(Pop(Pop(stk)), or_frag),
              state_id |-> id + 1]
    ELSE LET s == id
         IN  [heap |-> h @@ (s :> RegexGraphState(char, <<>>)),
              leaf_stack |-> Append(stk, RegexGraphFragment(s, <<s>>)),
              state_id |-> id + 1]

----------------------------------------------------------------------------
(* add_state, step, the final loop of match_str                            *)

RECURSIVE add_state(_, _, _, _)
RECURSIVE add_state_outs(_, _, _, _, _)
\* add_state(state, next_states).  active is the set of states whose add_state
\* call is on the call stack: a call on a state of active repeats itself without
\* end (the graph does not change), which the interpreter ends with RecursionError.
add_state(h, state, next_states, active) ==
    IF state \in active
    THEN [ok |-> FALSE, states |-> next_states]
    ELSE IF h[state].c = SPLIT
    THEN add_state_outs(h, h[state].out, 1, next_states, active \cup {state})
    ELSE [ok |-> TRUE, states |-> next_states \cup {state}]

\* "for out in out_states: add_state(out, next_states)"
add_state_outs(h, outs, k, next_states, active) ==
    IF k > Len(outs) THEN [ok |-> TRUE, states |-> next_states]
    ELSE LET r == add_state(h, outs[k], next_states, active)
         IN  IF r.ok THEN add_state_outs(h, outs, k + 1, r.states, active)
             ELSE r

RECURSIVE step_loop(_, _, _, _)
\* "for s in states: if s.c == char: for next_s in s.out: add_state(...)".
\* next_states is a set, so the order in which states is walked is immaterial.
step_loop(h, todo, char, next_states) ==
    IF todo = {} THEN [ok |-> TRUE, states |-> next_states]
    ELSE LET s == CHOOSE x \in todo : TRUE
             r == IF h[s].c = char
                  THEN add_state_outs(h, h[s].out, 1, next_states, {})
                  ELSE [ok |-> TRUE, states |-> next_states]
         IN  IF r.ok THEN step_loop(h, todo \ {s}, char, r.states) ELSE r

step(h, states, char) == step_loop(h, states, char, {})

\* The orders in which "for s in current_states" may walk the set.
Orders(S) == {f \in [1..Cardinality(S) -> S] : \A x \in S : \E k \in DOMAIN f : f[k] = x}

\* A loop that answers from the first state it meets.
match_loop_first(h, order) ==
    IF Len(order) > 0 /\ h[order[1]].c = MATCH THEN "True" ELSE "False"

\* "for s in current_states: if s.c == MATCH: return True" / "return False"
match_loop(h, order) ==
    IF \E k \in 1..Len(order) :
          h[order[k]].c = MATCH /\ \A j \in 1..(k - 1) : h[order[j]].c # MATCH
    THEN "True" ELSE "False"

----------------------------------------------------------------------------
(* The state machine: one call of match_str(input_str, regex_str)          *)

EmptyHeap == [s \in {} |-> RegexGraphState("", <<>>)]

InitWith(patterns, inputs) ==
    /\ regex_str \in patterns
    /\ input_str \in inputs
    /\ pc = "convert"
    /\ postfix_str = <<>>
    /\ pi = 0
    /\ leaf_stack = <<>>
    /\ heap = EmptyHeap
    /\ state_id = 0
    /\ regex_graph = -1
    /\ current_states = {}
    /\ i = 0
    /\ result = "none"
    /\ run = 1
    /\ first_result = "none"

Init == InitWith(SeqsUpTo(PatternChars, MaxPatLen), SeqsUpTo(Literals, MaxInLen))

InitLit == InitWith(SeqsUpTo(Literals \cup {"|"}, MaxLitPatLen),
                    SeqsUpTo(InputChars, MaxLitInLen))

InitRepeat == InitWith(SeqsUpTo(RepeatChars, MaxRepPatLen),
                       SeqsUpTo(Literals, MaxRepInLen))

\* match_str raises: the call ends with the exception as its outcome.
Raise(exc) ==
    /\ pc' = "done"
    /\ result' = exc

\* parse_regex: postfix_str = "".join(infix_to_postfix(regex_str))
Convert ==
    /\ pc = "convert"
    /\ postfix_str' = infix_to_postfix(regex_str)
    /\ pi' = 0
    /\ pc' = "build"
    /\ UNCHANGED <<regex_str, input_str, leaf_stack, heap, state_id, regex_graph,
                   current_states, i, result, run, first_result>>

\* parse_regex: one turn of "while i < len(postfix_str)"
BuildStep ==
    /\ pc = "build"
    /\ pi < Len(postfix_str)
    /\ LET char == postfix_str[pi + 1] IN
       IF Len(leaf_stack) < Arity(char)
       THEN /\ Raise("IndexError")
            /\ UNCHANGED <<pi, leaf_stack, heap, state_id>>
       ELSE LET r == parse_token(char, heap, leaf_stack, state_id) IN
            /\ heap' = r.heap
            /\ leaf_stack' = r.leaf_stack
            /\ state_id' = r.state_id
            /\ pi' = pi + 1
            /\ UNCHANGED <<pc, result>>
    /\ UNCHANGED <<regex_str, input_str, postfix_str, regex_graph,
                   current_states, i, run, first_result>>

\* parse_regex after the loop: the stack check, the matching state, set_out.
BuildFinish ==
    /\ pc = "build"
    /\ pi = Len(postfix_str)
    /\ IF Len(leaf_stack) # 1
       THEN /\ Raise("Exception")
            /\ UNCHANGED <<leaf_stack, heap, state_id, regex_graph>>
       ELSE LET matching_state == state_id
                graph_frag == Top(leaf_stack)
                h1 == heap @@ (matching_state :> RegexGraphState(MATCH, <<>>))
            IN  /\ heap' = set_out(h1, graph_frag.out_states, matching_state)
                /\ state_id' = state_id + 1
                /\ leaf_stack' = Pop(leaf_stack)
                /\ regex_graph' = graph_frag.start
                /\ pc' = "closure"
                /\ UNCHANGED result
    /\ UNCHANGED <<regex_str, input_str, postfix_str, pi, current_states, i,
                   run, first_result>>

\* match_str: current_states = set(); add_state(regex_graph, current_states); i = 0
Closure ==
    /\ pc = "closure"
    /\ LET r == add_state(heap, regex_graph, {}, {}) IN
       IF r.ok
       THEN /\ current_states' = r.states
            /\ i' = 0
            /\ pc' = "step"
            /\ UNCHANGED result
       ELSE /\ Raise("RecursionError")
            /\ UNCHANGED <<current_states, i>>
    /\ UNCHANGED <<regex_str, input_str, postfix_str, pi, leaf_stack, heap,
                   state_id, regex_graph, run, first_result>>

\* match_str: one turn of "while i < len(input_str)"
Step ==
    /\ pc = "step"
    /\ i < Len(input_str)
    /\ LET r == step(heap, current_states, input_str[i + 1]) IN
       IF r.ok
       THEN /\ current_states' = r.states
            /\ i' = i + 1
            /\ UNCHANGED <<pc, result>>
       ELSE /\ Raise("RecursionError")
            /\ UNCHANGED <<current_states, i>>
    /\ UNCHANGED <<regex_str, input_str, postfix_str, pi, leaf_stack, heap,
                   state_id, regex_graph, run, first_result>>

\* match_str: the final loop over current_states, in whatever order the set gives.
Finish ==
    /\ pc = "step"
    /\ i = Len(input_str)
    /\ \E order \in Orders(current_states) :
          result' = match_loop(heap, order)
    /\ pc' = "done"
    /\ UNCHANGED <<regex_str, input_str, postfix_str, pi, leaf_stack, heap,
                   state_id, regex_graph, current_states, i, run, first_result>>

\* The caller calls match_str again with the same arguments.  The objects of
\* the previous call are gone; the class counter _state_id keeps its value.
Again ==
    /\ pc = "done"
    /\ run < MaxRuns
    /\ run' = run + 1
    /\ first_result' = IF run = 1 THEN result ELSE first_result
    /\ pc' = "convert"
    /\ postfix_str' = <<>>
    /\ pi' = 0
    /\ leaf_stack' = <<>>
    /\ heap' = EmptyHeap
    /\ regex_graph' = -1
    /\ current_states' = {}
    /\ i' = 0
    /\ result' = "none"
    /\ UNCHANGED <<regex_str, input_str, state_id>>

Next == Convert \/ BuildStep \/ BuildFinish \/ Closure \/ Step \/ Finish

NextRepeat == Next \/ Again

Spec == Init /\ [][Next]_vars

SpecLit == InitLit /\ [][Next]_vars

SpecRepeat == InitRepeat /\ [][NextRepeat]_vars

----------------------------------------------------------------------------
(* Reference notions used to state the claims                              *)

Bool(b) == IF b THEN "True" ELSE "False"

Done == pc = "done"

ErrorOutcomes == {"Exception", "IndexError", "RecursionError"}

IsLiteral(c) == c \in Literals

\* The operands of a pattern or of a postfix sequence, in order.
Operands(str) == SelectSeq(str, IsLiteral)

\* s is n >= 1 copies of the non-empty string x.
IsRepetition(s, x) ==
    /\ Len(x) > 0
    /\ Len(s) >= Len(x)
    /\ Len(s) % Len(x) = 0
    /\ \A k \in 1..Len(s) : s[k] = x[((k - 1) % Len(x)) + 1]

\* A non-empty pattern of literals and "|" with no empty alternative.
WellFormedLit(p) ==
    /\ Len(p) > 0
    /\ \A k \in 1..Len(p) : p[k] \in Literals \cup {"|"}
    /\ p[1] # "|"
    /\ p[Len(p)] # "|"
    /\ \A k \in 1..(Len(p) - 1) : ~(p[k] = "|" /\ p[k + 1] = "|")

\* The language of such a pattern: its maximal "|"-free segments.
Alternatives(p) ==
    {SubSeq(p, a, b) : <<a, b>> \in
        {ab \in (1..Len(p)) \X (1..Len(p)) :
            /\ ab[1] <= ab[2]
            /\ \A k \in ab[1]..ab[2] : p[k] # "|"
            /\ (ab[1] = 1 \/ p[ab[1] - 1] = "|")
            /\ (ab[2] = Len(p) \/ p[ab[2] + 1] = "|")}}

\* The operand x of a pattern x+ : one literal, or a group of literals.
PlusOperands(p) ==
    {x \in SeqsUpTo(Literals, MaxPatLen) :
        /\ Len(x) > 0
        /\ \/ Len(x) = 1 /\ p = x \o <<"+">>
           \/ p = <<"(">> \o x \o <<")", "+">>}

\* One literal operand followed by one or more of the quantifiers *, +, ?.
StackedQuantifiers(p) ==
    /\ Len(p) >= 2
    /\ p[1] \in Literals
    /\ \A k \in 2..Len(p) : p[k] \in {"*", "+", "?"}

RECURSIVE OpenParens(_, _, _)
\* The number of "(" still open after scanning p from position k with d open.
OpenParens(p, k, d) ==
    IF k > Len(p) THEN d
    ELSE IF p[k] = "(" THEN OpenParens(p, k + 1, d + 1)
    ELSE IF p[k] = ")" /\ d > 0 THEN OpenParens(p, k + 1, d - 1)
    ELSE OpenParens(p, k + 1, d)

HasUnmatchedOpen(p) == OpenParens(p, 1, 0) > 0

\* p is (X)Y: X a well-formed body of literals and "|", Y a non-empty literal tail.
GroupThenTail(p) ==
    /\ Len(p) >= 4
    /\ p[1] = "("
    /\ \E k \in 3..(Len(p) - 1) :
          /\ p[k] = ")"
          /\ WellFormedLit(SubSeq(p, 2, k - 1))
          /\ \A j \in (k + 1)..Len(p) : p[j] \in Literals

----------------------------------------------------------------------------
(* The claims                                                              *)

\* C1: for the pattern "a*", match_str returns true iff the input consists of
\* zero or more 'a' characters.
C1_StarAcceptsRunsOfA ==
    (Done /\ regex_str = <<"a", "*">>)
        => result = Bool(\A k \in 1..Len(input_str) : input_str[k] = "a")

\* C2: for X a single literal or a parenthesised group of literals, the pattern
\* X+ accepts an input iff the input is one or more repetitions of X.
C2_PlusAcceptsRepetitions ==
    Done => \A x \in PlusOperands(regex_str) :
                result = Bool(IsRepetition(input_str, x))

\* C3: the pattern "a?b" compiles without error and match_str accepts an input
\* iff the input is "b" or "ab".
C3_OptionalThenLiteral ==
    (Done /\ regex_str = <<"a", "?", "b">>)
        => result = Bool(input_str \in {<<"b">>, <<"a", "b">>})

\* C4: for every non-empty well-formed pattern of literals, implicit
\* concatenation and "|", match_str returns true iff the whole input is one of
\* the pattern's alternatives (concatenation binds tighter than alternation).
C4_LiteralAlternation ==
    (Done /\ WellFormedLit(regex_str))
        => result = Bool(input_str \in Alternatives(regex_str))

\* C4 witness: "a|ab" has been matched against "ab" and accepted it.
C4_Witness ==
    /\ Done
    /\ regex_str = <<"a", "|", "a", "b">>
    /\ input_str = <<"a", "b">>
    /\ result = "True"

\* C5: for every pattern that compiles without error and every input, every
\* add_state call terminates, so match_str ends by returning a boolean.  Stated
\* for the patterns the claim names: quantifiers stacked on one operand.
C5_ClosureTerminates ==
    (Done /\ StackedQuantifiers(regex_str) /\ regex_graph # -1)
        => result \in {"True", "False"}

\* C6: a pattern with a "(" that has no matching ")" ends in an error outcome;
\* it is never compiled and matched as if the group ended with the string.
C6_UnmatchedOpenIsError ==
    (Done /\ HasUnmatchedOpen(regex_str)) => result \in ErrorOutcomes

\* C7: the empty pattern compiles without raising and accepts exactly the
\* empty input.
C7_EmptyPattern ==
    (Done /\ regex_str = <<>>) => result = Bool(input_str = <<>>)

\* C8: repeated match_str calls with the same arguments give the same result
\* whatever ran before (the class counter _state_id has advanced, the final
\* loop may walk the state set in any order), and the simulation (add_state,
\* step, the final loop) changes no state's c or out.
C8_Deterministic ==
    [][/\ (pc \in {"closure", "step"} => heap' = heap)
       /\ (pc' = "done" /\ run' > 1 => result' = first_result')]_vars

\* C8 witness: a second call has accepted, its final state set holding the
\* matching state beside another state, built from a counter that had advanced.
C8_Witness ==
    /\ Done
    /\ run = 2
    /\ result = "True"
    /\ first_result = "True"
    /\ Cardinality(current_states) > 1
    /\ \A s \in DOMAIN heap : s > 0

\* C9: a construction step never discards a transition already recorded in a
\* state's out list: set_out adds the edge to next_frag.start and keeps the rest.
C9_SetOutKeepsEdges ==
    [][\A s \in DOMAIN heap :
          /\ s \in DOMAIN heap'
          /\ \A k \in 1..Len(heap[s].out) :
                \E j \in 1..Len(heap'[s].out) : heap'[s].out[j] = heap[s].out[k]]_vars

\* C10: for a well-formed pattern (X)Y the parent scan resumes right after the
\* group's ")": the postfix output keeps every operand of X and then of Y.
C10_GroupResume ==
    (pc # "convert" /\ GroupThenTail(regex_str))
        => Operands(postfix_str) = Operands(regex_str)

====
